---- MODULE Spec2Model ----
(***************************************************************************)
(* The resume-analysis request translator, in its three hosting variants:  *)
(*   "pages"  : src/functions/api/getAnalysis.js           (onRequestPost) *)
(*   "worker" : src/untitled folder 9/functions:/api:/getAnalysis.js       *)
(*                                                         (onRequest)     *)
(*   "vercel" : src/untitled folder 9/API/gtAnalysis.js    (handler)       *)
(* One behaviour is one invocation of one handler.  JavaScript values are  *)
(* modelled as optional values: None is undefined, Some(v) a defined value;*)
(* a string is Some(<<tok1, ..., tokn>>), a sequence of text fragments     *)
(* whose concatenation is the string, so that the empty string is          *)
(* Some(<<>>) and template literals are sequence concatenations.           *)
(***************************************************************************)
EXTENDS Integers, Sequences, FiniteSets, TLC

VARIABLES variant, apiKey, pc, req, body, systemPrompt, tools, outbound,
          calls, upstream, text, sources, error, log, response

vars == <<variant, apiKey, pc, req, body, systemPrompt, tools, outbound,
          calls, upstream, text, sources, error, log, response>>

\* ------------------------------------------------------------------ bounds
\* longest groundingAttributions array the upstream stub returns
MaxAttr == 2
\* cap on the upstream-call counter (the code itself never loops)
MaxCalls == 2

\* ------------------------------------------------------- JavaScript values
None == [def |-> FALSE]
Some(v) == [def |-> TRUE, val |-> v]
S(str) == Some(<<str>>)
EmptyString == Some(<<>>)

\* JS truthiness of an undefined-or-string value: !x is true for undefined
\* and for the empty string
Truthy(x) == x.def /\ x.val /= <<>>

\* x || dflt on strings
OrElse(x, dflt) == IF Truthy(x) THEN x.val ELSE dflt

\* `${x}` : undefined interpolates as the text "undefined"
Interpolate(x) == IF x.def THEN x.val ELSE <<"undefined">>

Range(s) == {s[i] : i \in DOMAIN s}

RECURSIVE SeqsUpTo(_, _)
SeqsUpTo(set, n) ==
    IF n = 0 THEN {<<>>}
    ELSE LET shorter == SeqsUpTo(set, n - 1)
         IN  shorter \cup {Append(s, e) : s \in {t \in shorter : Len(t) = n - 1}, e \in set}

\* String.prototype.replace(pattern, by) with a string pattern: replaces the
\* first occurrence only
RECURSIVE ReplaceFirst(_, _, _)
ReplaceFirst(s, pattern, by) ==
    IF s = <<>> THEN <<>>
    ELSE IF Head(s) = pattern THEN <<by>> \o Tail(s)
    ELSE <<Head(s)>> \o ReplaceFirst(Tail(s), pattern, by)

\* ------------------------------------------------------------------ inputs
Variants == {"pages", "worker", "vercel"}

\* env.GEMINI_API_KEY / process.env.GEMINI_API_KEY
ApiKeys == {None, EmptyString, S("k")}

\* onRequestPost is routed by the platform for POST only; the other two
\* handlers receive every method
Methods(v) == IF v = "pages" THEN {"POST"} ELSE {"POST", "GET"}

ResumeTexts == {None, EmptyString, S("Jane Doe, Software Engineer")}
Types == {None, EmptyString, S("jobs"), S("critique"), S("contacts"), S("unknown")}
Locations == {None, EmptyString, S("Seattle")}
DatesPosted == {None, EmptyString, S("any"), Some(<<"past", "_", "week">>)}

\* a parsed JSON body, or None when the body cannot be read as an object
Bodies ==
    {None} \cup
    {Some([resumeText |-> r, type |-> t, location |-> l, datePosted |-> d]) :
        r \in ResumeTexts, t \in Types, l \in Locations, d \in DatesPosted}

\* the value every destructured field has before the body is read
NoFields == [resumeText |-> None, type |-> None, location |-> None, datePosted |-> None]

\* grounding attributions the upstream stub can return
Attributions ==
    { [web |-> None],
      [web |-> Some([uri |-> S("u1"), title |-> S("t1")])],
      [web |-> Some([uri |-> S("u2"), title |-> S("t2")])],
      [web |-> Some([uri |-> S("u1"), title |-> EmptyString])],
      [web |-> Some([uri |-> None, title |-> S("t1")])],
      [web |-> Some([uri |-> EmptyString, title |-> S("t2")])] }

GroundingMetadatas ==
    {None, Some([groundingAttributions |-> None])} \cup
    {Some([groundingAttributions |-> Some(a)]) : a \in SeqsUpTo(Attributions, MaxAttr)}

Contents ==
    { None,
      Some([parts |-> None]),
      Some([parts |-> Some(<<>>)]),
      Some([parts |-> Some(<<[text |-> None]>>)]),
      Some([parts |-> Some(<<[text |-> EmptyString]>>)]),
      Some([parts |-> Some(<<[text |-> S("## Resume Critique")]>>)]) }

Candidates == {[content |-> c, groundingMetadata |-> g] : c \in Contents, g \in GroundingMetadatas}

\* a later candidate, which no variant reads
OtherCandidate ==
    [content |-> Some([parts |-> Some(<<[text |-> S("second candidate")]>>)]),
     groundingMetadata |-> Some([groundingAttributions |->
        Some(<<[web |-> Some([uri |-> S("u9"), title |-> S("t9")])]>>)])]

\* body of a successful generateContent response
GeminiResults ==
    {[candidates |-> None], [candidates |-> Some(<<>>)]} \cup
    {[candidates |-> Some(<<c>>)] : c \in Candidates} \cup
    {[candidates |-> Some(<<c, OtherCandidate>>)] :
        c \in {d \in Candidates : d.groundingMetadata = None}}

\* what the one upstream round trip can come back with
UpstreamOutcomes ==
    {[kind |-> "ok", result |-> r] : r \in GeminiResults} \cup
    {[kind |-> "httpError", message |-> m] : m \in {None, Some("quota exceeded")}} \cup
    {[kind |-> "httpErrorNotJson"], [kind |-> "transport"]}

\* ----------------------------------------------------------------- prompts
\* getSystemPrompt, lines 109-118 (vercel) / 122-131 (worker): the filter text
FilterString(location, datePosted) ==
    LET loc == IF Truthy(location)
               THEN <<" (Location: ">> \o location.val \o <<")">>
               ELSE <<>>
        date == IF Truthy(datePosted) /\ datePosted /= S("any")
                THEN <<" (Posted: ">> \o ReplaceFirst(datePosted.val, "_", " ") \o <<")">>
                ELSE <<>>
        filterString == loc \o date
    IN  IF filterString /= <<>>
        THEN <<"\n\n**CRITICAL: You MUST adhere to these filters: ">> \o filterString \o <<"**">>
        ELSE <<>>

\* the critique wording is the one place where the two copies differ
CritiqueText(v) ==
    IF v = "vercel"
    THEN <<"You are an expert resume critique assistant. [advice: clarity, impact, keywords] Do not use Google Search for this task.">>
    ELSE <<"You are an expert resume critique assistant. [advice] Do not use Google Search for this task.">>

\* getSystemPrompt of the vercel and worker variants; it has a default branch
\* and never throws
getSystemPrompt(v, type, location, datePosted) ==
    IF type = S("jobs")
    THEN <<"You are an expert AI job assistant. [around 20 postings, original links, ## Networking Contacts]", "\n">>
            \o FilterString(location, datePosted)
    ELSE IF type = S("critique")
    THEN CritiqueText(v)
    ELSE IF type = S("contacts")
    THEN <<"You are an expert AI networking assistant. [5-10 contacts]", "\n">>
            \o FilterString(location, datePosted)
    ELSE <<"You are a helpful assistant. Please analyze the provided text.">>

\* the switch of onRequestPost (pages): prompt and tools per type, or the
\* thrown error of the default branch
PagesSwitch(type, location, datePosted) ==
    IF type = S("jobs")
    THEN [threw |-> FALSE,
          systemPrompt |->
             <<"You are an expert AI job search assistant. [1-2]",
               "3.  **FILTER** your search based on these user-provided filters:",
               "- Location: \"">> \o OrElse(location, <<"any">>) \o <<"\"",
               "- Date Posted: \"">> \o OrElse(datePosted, <<"any">>) \o <<"\"",
               "[4-8: around 20 postings, Markdown links, ## Networking Contacts]">>,
          tools |-> Some(<<"google_search">>)]
    ELSE IF type = S("critique")
    THEN [threw |-> FALSE,
          systemPrompt |->
             <<"You are an expert resume reviewer. [## Resume Critique, Strengths, Areas for Improvement] Do NOT use the Google Search tool.">>,
          tools |-> Some(<<>>)]
    ELSE IF type = S("contacts")
    THEN [threw |-> FALSE,
          systemPrompt |->
             <<"You are an expert networking assistant. [1-2]",
               "3.  **FILTER** your search based on the user-provided location: \"">>
               \o OrElse(location, <<"any">>) \o <<"\".",
               "[4-6: ## Networking Contacts]">>,
          tools |-> Some(<<"google_search">>)]
    ELSE [threw |-> TRUE, message |-> "Invalid analysis type."]

\* variant of ToolsFor that attaches the search tool to every call
ToolsFor_Always(type) == Some(<<"google_search">>)

\* tools: (type === 'jobs' || type === 'contacts') ? tools : undefined
ToolsFor(type) ==
    IF type = S("jobs") \/ type = S("contacts") THEN Some(<<"google_search">>) ELSE None

\* the user content: pages prefixes the resume, the SDK variants send it bare
UserText(v, resumeText) ==
    IF v = "pages" THEN <<"Here is my resume:\n\n">> \o Interpolate(resumeText)
    ELSE resumeText.val

\* ------------------------------------------------------ response extraction
\* x?.[0] on an optional array
FirstOf(arr) == IF arr.def /\ arr.val /= <<>> THEN Some(arr.val[1]) ELSE None

\* pages, lines 104-105: optional chaining all the way, then || placeholder
PagesText(result) ==
    LET candidate == FirstOf(result.candidates)
        content   == IF candidate.def THEN candidate.val.content ELSE None
        part      == IF content.def THEN FirstOf(content.val.parts) ELSE None
        t         == IF part.def THEN part.val.text ELSE None
    IN  Some(OrElse(t, <<"No response text found.">>))

\* vercel line 75 / worker line 87: a plain property chain, which throws a
\* TypeError as soon as one link is undefined
ChainThrows(result) ==
    LET candidate == FirstOf(result.candidates)
    IN  \/ ~candidate.def
        \/ ~candidate.val.content.def
        \/ ~FirstOf(candidate.val.content.val.parts).def

ChainText(result) == result.candidates.val[1].content.val.parts.val[1].text

\* candidate?.groundingMetadata (pages) / candidates[0].groundingMetadata
GroundingOf(result) ==
    LET candidate == FirstOf(result.candidates)
    IN  IF candidate.def THEN candidate.val.groundingMetadata ELSE None

\* attribution => ({uri: attribution.web?.uri, title: attribution.web?.title})
ToSource(attribution) ==
    IF attribution.web.def
    THEN [uri |-> attribution.web.val.uri, title |-> attribution.web.val.title]
    ELSE [uri |-> None, title |-> None]

\* variant of ValidSource that forgets the title
ValidSource_UriOnly(source) == Truthy(source.uri)

\* source => source.uri && source.title
ValidSource(source) == Truthy(source.uri) /\ Truthy(source.title)

\* the sources block, identical in the three variants
ExtractSources(result) ==
    LET groundingMetadata == GroundingOf(result)
    IN  IF groundingMetadata.def /\ groundingMetadata.val.groundingAttributions.def
        THEN LET attributions == groundingMetadata.val.groundingAttributions.val
                 mapped == [i \in DOMAIN attributions |-> ToSource(attributions[i])]
             IN  SelectSeq(mapped, ValidSource)
        ELSE <<>>

\* JSON.stringify drops the properties whose value is undefined
SuccessBody(t, srcs) ==
    IF t.def THEN [text |-> t.val, sources |-> srcs] ELSE [sources |-> srcs]

\* the error body: pages sends error.message, the others prefix it
ErrorBody(v, message) ==
    IF v = "pages" THEN [error |-> message]
    ELSE [error |-> "Error generating content: " \o message]

CatchLabel(v) ==
    IF v = "vercel" THEN "Error in Vercel function:" ELSE "Error in Cloudflare function:"


\* the message of the error a failed upstream call raises: pages builds it
\* from the error body (line 98), the SDK raises its own
UpstreamErrorMessage(v, outcome) ==
    IF outcome.kind = "httpError"
    THEN IF outcome.message.def THEN outcome.message.val
         ELSE IF v = "pages" THEN "Failed to call Gemini API."
         ELSE "[GoogleGenerativeAI Error]"
    ELSE IF outcome.kind = "httpErrorNotJson" THEN "Unexpected token < in JSON"
    ELSE "fetch failed"

\* variant of AfterUpstreamFailure that retries the call
AfterUpstreamFailure_Retry == "call"

\* where control goes when the upstream call fails: the throw lands in the
\* catch block; there is no loop around the call
AfterUpstreamFailure == "catch"

\* variant of KeyMissing that tests for undefined only
KeyMissing_UndefinedOnly(key) == ~key.def

\* !API_KEY / !GEMINI_API_KEY
KeyMissing(key) == ~Truthy(key)

Respond(status, responseBody) == Some([status |-> status, body |-> responseBody])

\* ------------------------------------------------------------------- state
Init ==
    /\ variant \in Variants
    /\ apiKey \in ApiKeys
    /\ pc = "idle"
    /\ req = None
    /\ body = NoFields
    /\ systemPrompt = None
    /\ tools = None
    /\ outbound = None
    /\ calls = 0
    /\ upstream = None
    /\ text = None
    /\ sources = <<>>
    /\ error = None
    /\ log = <<>>
    /\ response = None

\* the platform invokes the handler with one request
Receive ==
    /\ pc = "idle"
    /\ \E m \in Methods(variant), b \in Bodies : req' = Some([method |-> m, body |-> b])
    /\ pc' = IF variant = "pages" THEN "readBody" ELSE "checkKey"
    /\ UNCHANGED <<variant, apiKey, body, systemPrompt, tools, outbound, calls,
                   upstream, text, sources, error, log, response>>

\* worker 17-22, vercel 14-19: answered directly, before anything else;
\* pages 12-16: thrown inside the try, after the body was read
CheckApiKey ==
    /\ pc = "checkKey"
    /\ IF KeyMissing(apiKey)
       THEN IF variant = "pages"
            THEN /\ error' = Some("API key is not configured.")
                 /\ pc' = "catch"
                 /\ UNCHANGED response
            ELSE /\ response' = Respond(500, [error |-> "API key is missing."])
                 /\ pc' = "done"
                 /\ UNCHANGED error
       ELSE /\ pc' = IF variant = "pages" THEN "buildPrompt" ELSE "checkMethod"
            /\ UNCHANGED <<error, response>>
    /\ UNCHANGED <<variant, apiKey, req, body, systemPrompt, tools, outbound, calls,
                   upstream, text, sources, log>>

\* worker 24-30, vercel 21-24
CheckMethod ==
    /\ pc = "checkMethod"
    /\ IF req.val.method /= "POST"
       THEN /\ response' = Respond(405, [error |-> "Method Not Allowed (must be POST)"])
            /\ pc' = "done"
       ELSE /\ pc' = "readBody"
            /\ UNCHANGED response
    /\ UNCHANGED <<variant, apiKey, req, body, systemPrompt, tools, outbound, calls,
                   upstream, text, sources, error, log>>

\* pages 7-8 and worker 34 read the body inside the try; vercel 27
\* destructures request.body before its try begins
ReadBody ==
    /\ pc = "readBody"
    /\ IF req.val.body.def
       THEN /\ body' = req.val.body.val
            /\ pc' = IF variant = "pages" THEN "checkKey" ELSE "validate"
            /\ UNCHANGED error
       ELSE /\ error' = Some(IF variant = "vercel"
                             THEN "Cannot destructure property 'resumeText'"
                             ELSE "Unexpected end of JSON input")
            /\ pc' = IF variant = "vercel" THEN "escaped" ELSE "catch"
            /\ UNCHANGED body
    /\ UNCHANGED <<variant, apiKey, req, systemPrompt, tools, outbound, calls,
                   upstream, text, sources, log, response>>

\* worker 36-47, vercel 29-34; pages has no such step
Validate ==
    /\ pc = "validate"
    /\ IF ~Truthy(body.resumeText)
       THEN /\ response' = Respond(400, [error |-> "Resume text is required."])
            /\ pc' = "done"
       ELSE IF ~Truthy(body.type)
       THEN /\ response' = Respond(400, [error |-> "Analysis type is required."])
            /\ pc' = "done"
       ELSE /\ pc' = "buildPrompt"
            /\ UNCHANGED response
    /\ UNCHANGED <<variant, apiKey, req, body, systemPrompt, tools, outbound, calls,
                   upstream, text, sources, error, log>>

\* pages 21-72; worker 49-54 and 76-83; vercel 37-42 and 64-71
BuildPrompt ==
    /\ pc = "buildPrompt"
    /\ IF variant = "pages"
       THEN LET built == PagesSwitch(body.type, body.location, body.datePosted)
            IN  IF built.threw
                THEN /\ error' = Some(built.message)
                     /\ pc' = "catch"
                     /\ UNCHANGED <<systemPrompt, tools>>
                ELSE /\ systemPrompt' = Some(built.systemPrompt)
                     /\ tools' = built.tools
                     /\ pc' = "call"
                     /\ UNCHANGED error
       ELSE /\ systemPrompt' = Some(getSystemPrompt(variant, body.type, body.location,
                                                    body.datePosted))
            /\ tools' = ToolsFor(body.type)
            /\ pc' = "call"
            /\ UNCHANGED error
    /\ UNCHANGED <<variant, apiKey, req, body, outbound, calls, upstream, text,
                   sources, log, response>>

\* pages 75-99 (fetch, then the !ok branch); worker 79-84, vercel 67-72
\* (model.generateContent, which throws on any failure)
CallUpstream ==
    /\ pc = "call"
    /\ calls < MaxCalls
    /\ calls' = calls + 1
    /\ outbound' = Some([systemInstruction |-> systemPrompt.val,
                         userText |-> UserText(variant, body.resumeText),
                         tools |-> tools])
    /\ \E outcome \in UpstreamOutcomes :
         /\ upstream' = Some(outcome)
         /\ IF outcome.kind = "ok"
            THEN /\ pc' = "extract"
                 /\ UNCHANGED <<error, log>>
            ELSE /\ error' = Some(UpstreamErrorMessage(variant, outcome))
                 /\ log' = IF variant = "pages" /\ outcome.kind = "httpError"
                           THEN Append(log, [label |-> "Gemini API Error:",
                                             detail |-> outcome.message])
                           ELSE log
                 /\ pc' = AfterUpstreamFailure
    /\ UNCHANGED <<variant, apiKey, req, body, systemPrompt, tools, text, sources,
                   response>>

\* pages 101-116; worker 86-99; vercel 74-87
Extract ==
    /\ pc = "extract"
    /\ LET result == upstream.val.result
       IN  IF variant /= "pages" /\ ChainThrows(result)
           THEN /\ error' = Some("Cannot read properties of undefined")
                /\ pc' = "catch"
                /\ UNCHANGED <<text, sources>>
           ELSE /\ text' = IF variant = "pages" THEN PagesText(result) ELSE ChainText(result)
                /\ sources' = ExtractSources(result)
                /\ pc' = "respond"
                /\ UNCHANGED error
    /\ UNCHANGED <<variant, apiKey, req, body, systemPrompt, tools, outbound, calls,
                   upstream, log, response>>

\* pages 119-124; worker 102-105; vercel 90-93
ReturnSuccess ==
    /\ pc = "respond"
    /\ response' = Respond(200, SuccessBody(text, sources))
    /\ pc' = "done"
    /\ UNCHANGED <<variant, apiKey, req, body, systemPrompt, tools, outbound, calls,
                   upstream, text, sources, error, log>>

\* the console.error of the catch block: pages 128, worker 108, vercel 96
LogError ==
    /\ pc = "catch"
    /\ log' = Append(log, [label |-> CatchLabel(variant), detail |-> error])
    /\ pc' = "catchReturn"
    /\ UNCHANGED <<variant, apiKey, req, body, systemPrompt, tools, outbound, calls,
                   upstream, text, sources, error, response>>

\* the return of the catch block: pages 129-132, worker 109-111, vercel 97-99
ReturnError ==
    /\ pc = "catchReturn"
    /\ response' = Respond(500, ErrorBody(variant, error.val))
    /\ pc' = "done"
    /\ UNCHANGED <<variant, apiKey, req, body, systemPrompt, tools, outbound, calls,
                   upstream, text, sources, error, log>>

Next ==
    \/ Receive
    \/ CheckApiKey
    \/ CheckMethod
    \/ ReadBody
    \/ Validate
    \/ BuildPrompt
    \/ CallUpstream
    \/ Extract
    \/ ReturnSuccess
    \/ LogError
    \/ ReturnError

Spec == Init /\ [][Next]_vars

TypeOK ==
    /\ variant \in Variants
    /\ pc \in {"idle", "checkKey", "checkMethod", "readBody", "validate", "buildPrompt",
               "call", "extract", "respond", "catch", "catchReturn", "done", "escaped"}
    /\ calls \in 0..MaxCalls

\* ------------------------------------------------------------------ claims
Answered == pc = "done" /\ response.def
Status == response.val.status
IsErrorBody == DOMAIN response.val.body = {"error"}
UpstreamOk == upstream.def /\ upstream.val.kind = "ok"
UpstreamFailed == upstream.def /\ upstream.val.kind /= "ok"
PostWithKey == req.def /\ req.val.method = "POST" /\ Truthy(apiKey) /\ req.val.body.def
Sent == req.val.body.val
KnownTypes == {S("jobs"), S("critique"), S("contacts")}

\* C1: a POST with the credential configured whose body lacks resumeText or
\* type (undefined or empty) is answered 400 with an {error} body, and no
\* upstream call is issued for it
C1_MissingFieldAnswered400 ==
    (PostWithKey /\ (~Truthy(Sent.resumeText) \/ ~Truthy(Sent.type)))
        => /\ calls = 0
           /\ pc /= "escaped"
           /\ Answered => (Status = 400 /\ IsErrorBody)

\* C2: without the credential every invocation, whatever its method and
\* body, is answered 500 with an {error} body and issues no upstream call
C2_MissingKeyAnswered500 ==
    ~Truthy(apiKey)
        => /\ calls = 0
           /\ outbound = None
           /\ pc /= "escaped"
           /\ pc = "done" => (response.def /\ Status = 500 /\ IsErrorBody)

C2_Witness ==
    /\ ~Truthy(apiKey)
    /\ Answered
    /\ Status = 500
    /\ req.val.body.def
    /\ Truthy(Sent.resumeText)
    /\ Sent.type = S("critique")

\* C3: a POST with the credential, a non-empty resumeText and a type other
\* than jobs, critique, contacts ends in an error response with zero
\* upstream calls
C3_UnknownTypeIsErrorWithoutCall ==
    (PostWithKey /\ Truthy(Sent.resumeText) /\ Truthy(Sent.type) /\ Sent.type \notin KnownTypes)
        => /\ calls = 0
           /\ pc /= "escaped"
           /\ Answered => (Status /= 200 /\ IsErrorBody)

HasSearchTool(t) == t.def /\ "google_search" \in Range(t.val)

\* C4: every outbound request carries the google_search declaration exactly
\* when the requested type is jobs or contacts
C4_SearchToolIffJobsOrContacts ==
    outbound.def
        => (HasSearchTool(outbound.val.tools) <=> Sent.type \in {S("jobs"), S("contacts")})

C4_Witness ==
    /\ outbound.def
    /\ Sent.type = S("critique")
    /\ ~HasSearchTool(outbound.val.tools)
    /\ variant = "worker"

\* the attributions of the first candidate, [] when there are none
C5_Attributions(result) ==
    IF /\ result.candidates.def
       /\ result.candidates.val /= <<>>
       /\ result.candidates.val[1].groundingMetadata.def
       /\ result.candidates.val[1].groundingMetadata.val.groundingAttributions.def
    THEN result.candidates.val[1].groundingMetadata.val.groundingAttributions.val
    ELSE <<>>

C5_BothPresent(a) ==
    /\ a.web.def
    /\ a.web.val.uri.def /\ a.web.val.uri.val /= <<>>
    /\ a.web.val.title.def /\ a.web.val.title.val /= <<>>

C5_Pair(a) == [uri |-> a.web.val.uri, title |-> a.web.val.title]

C5_Expected(result) ==
    LET kept == SelectSeq(C5_Attributions(result), C5_BothPresent)
    IN  [i \in DOMAIN kept |-> C5_Pair(kept[i])]

\* the first candidate carries a first content part, so that the text can be read
C5_HasFirstPart(result) ==
    /\ result.candidates.def /\ result.candidates.val /= <<>>
    /\ result.candidates.val[1].content.def
    /\ result.candidates.val[1].content.val.parts.def
    /\ result.candidates.val[1].content.val.parts.val /= <<>>

C6_ResponseIsOneOfTwoShapes ==
    response.def
        => \/ Status = 200 /\ DOMAIN response.val.body = {"text", "sources"} /\ UpstreamOk
           \/ Status /= 200 /\ IsErrorBody

C7_NoText(result) ==
    \/ ~C5_HasFirstPart(result)
    \/ ~result.candidates.val[1].content.val.parts.val[1].text.def

\* C7: a successful upstream response without a first candidate, first part
\* or text is still answered 200, with the placeholder as text
C7_MissingTextDegradesToPlaceholder ==
    (pc = "done" /\ UpstreamOk /\ C7_NoText(upstream.val.result))
        => /\ response.def
           /\ Status = 200
           /\ "text" \in DOMAIN response.val.body
           /\ response.val.body.text = <<"No response text found.">>

\* C8: an invocation issues at most one upstream call, a 200 response has
\* issued exactly one, and a failed call is followed by an error response,
\* not by a second call
C8_AtMostOneUpstreamCall ==
    /\ calls <= 1
    /\ (Answered /\ Status = 200) => calls = 1
    /\ (pc = "done" /\ UpstreamFailed) => (response.def /\ Status /= 200 /\ calls = 1)

C8_Witness ==
    /\ Answered
    /\ UpstreamFailed
    /\ calls = 1
    /\ Status = 500

LocationClauseMarks == {" (Location: ", "- Location: \""}
DateClauseMarks == {" (Posted: ", "- Date Posted: \""}

\* C9: the jobs prompt has a location clause iff location is non-empty, and
\* a date clause iff datePosted is non-empty and not "any"
C9_JobsFilterClauses ==
    (systemPrompt.def /\ Sent.type = S("jobs"))
        => /\ (Range(systemPrompt.val) \cap LocationClauseMarks /= {}) <=> Truthy(Sent.location)
           /\ (Range(systemPrompt.val) \cap DateClauseMarks /= {})
                 <=> (Truthy(Sent.datePosted) /\ Sent.datePosted /= S("any"))

\* C10: no error response is returned without a diagnostic log entry
\* emitted earlier in the same invocation
C10_ErrorResponseIsLogged ==
    (response.def /\ Status /= 200) => Len(log) > 0

\* C11: no exception escapes the handler and no invocation ends without a
\* response: every failure raised while reading the body, building the
\* prompt, calling upstream or extracting the result becomes an {error}
\* response, and a response once returned is never replaced
C11_NoExceptionEscapes ==
    /\ pc /= "escaped"
    /\ pc = "done" => response.def
    /\ (error.def /\ pc = "done") => (Status /= 200 /\ IsErrorBody)
    /\ response.def => pc = "done"

====
